---- MODULE Spec2Model ----
(***************************************************************************)
(* Model of the IndCad NOC matcher (matcher.py, noc_db.py, embeddings.py,  *)
(* title_index.py): title lookup (code shortcut, exact/alias match, fuzzy  *)
(* match fused with title-index scores), the lru_cache wrapper, the        *)
(* duty-based semantic search and the index build.                         *)
(*                                                                         *)
(* Text is a sequence of one-character strings.  A score is an integer in  *)
(* units of 1/Scale, so that the float 1.0 is Scale.                        *)
(***************************************************************************)
EXTENDS Integers, Sequences, FiniteSets, TLC

VARIABLES
    entries,          \* the records of noc_data.jsonl, as load_noc_entries reads them
    title_index,      \* title_index / title_vectors of title_index.py, read at import
    faiss_available,  \* FAISS_AVAILABLE of embeddings.py
    emb_file,         \* noc_embeddings.json
    faiss_file,       \* noc_faiss.index
    cache,            \* the lru_cache of match_by_title_cached, least recently used first
    last,             \* the most recent call and what it returned
    querying,         \* a match_query in progress: its position and what it has read
    rebuilding,       \* a prepare_and_build_index in progress: its position and locals
    orders,           \* the rows of the orders table of app.py, by primary key
    sessions,         \* the Checkout Sessions Stripe holds for this account, by id
    STRIPE_WEBHOOK_SECRET,  \* whether the environment sets a webhook secret
    request           \* the most recent HTTP request of app.py and its response

\* The state of app.py: the order store, Stripe, the configuration.
store == <<orders, sessions, STRIPE_WEBHOOK_SECRET, request>>

vars ==
    <<entries, title_index, faiss_available, emb_file, faiss_file, cache, last,
      querying, rebuilding, store>>

(***************************************************************************)
(* Bounds of the model.                                                    *)
(***************************************************************************)
\* Longest taxonomy of the title-lookup specification.
MaxEntries == 2
\* lru_cache(maxsize=2048) of matcher.py:213, scaled down so that eviction happens.
LruMaxSize == 2
\* Longest text given to normalize_text on its own.
MaxTextLen == 3

(***************************************************************************)
(* Program constants.                                                      *)
(***************************************************************************)
\* The float 1.0 of a score, in model units.
Scale == 8400
\* config.TOP_K
TOP_K == 5
\* The candidate width of the title index search, min(10, len(title_vectors)).
TitleCandidates == 10
\* The default of top_k in the signature of match_by_title_cached.
DefaultTopK == 5

\* Python's None where a sequence of texts (an index, a file of vectors) may be absent.
None == << <<"None">> >>

(***************************************************************************)
(* Characters and the string methods the matcher uses.                     *)
(***************************************************************************)
LowerChars == {"a", "b", "c"}
UpperChars == {"A", "B"}
DigitChars == {"1", "2"}
SpaceChars == {" "}

ToLower(c) == IF c = "A" THEN "a" ELSE IF c = "B" THEN "b" ELSE c

Lower(s) == [i \in 1..Len(s) |-> ToLower(s[i])]

RECURSIVE LStrip(_)
LStrip(s) == IF s # <<>> /\ Head(s) \in SpaceChars THEN LStrip(Tail(s)) ELSE s

RECURSIVE RStrip(_)
RStrip(s) ==
    IF s # <<>> /\ s[Len(s)] \in SpaceChars THEN RStrip(SubSeq(s, 1, Len(s) - 1)) ELSE s

Strip(s) == RStrip(LStrip(s))

isdigit(s) == s # <<>> /\ \A i \in 1..Len(s) : s[i] \in DigitChars

NotAlnumSpace(c) == c \notin (LowerChars \cup DigitChars \cup {" "})

IsWhitespace(c) == c \in SpaceChars

\* re.sub(r'[^a-z0-9 ]+', ' ', s): every maximal run of other characters becomes
\* one space.
RECURSIVE SubNonAlnum(_, _)
SubNonAlnum(s, inRun) ==
    IF s = <<>> THEN <<>>
    ELSE IF NotAlnumSpace(Head(s))
         THEN (IF inRun THEN <<>> ELSE <<" ">>) \o SubNonAlnum(Tail(s), TRUE)
         ELSE <<Head(s)>> \o SubNonAlnum(Tail(s), FALSE)

\* re.sub(r'\s+', ' ', s): every maximal run of whitespace becomes one space.
RECURSIVE SubWhitespace(_, _)
SubWhitespace(s, inRun) ==
    IF s = <<>> THEN <<>>
    ELSE IF IsWhitespace(Head(s))
         THEN (IF inRun THEN <<>> ELSE <<" ">>) \o SubWhitespace(Tail(s), TRUE)
         ELSE <<Head(s)>> \o SubWhitespace(Tail(s), FALSE)

normalize_text(s) ==
    IF s = <<>> THEN <<>>
    ELSE SubWhitespace(SubNonAlnum(Strip(Lower(s)), FALSE), FALSE)

Max(S) == CHOOSE x \in S : \A y \in S : y <= x

Min(S) == CHOOSE x \in S : \A y \in S : x <= y

\* seq[:k] of Python, k negative included.
PySlice(seq, k) ==
    IF k >= 0 THEN SubSeq(seq, 1, Min({k, Len(seq)}))
    ELSE SubSeq(seq, 1, Max({Len(seq) + k, 0}))

(***************************************************************************)
(* difflib.SequenceMatcher(None, a, b).ratio(): the longest common block   *)
(* (the earliest in a, then the earliest in b), then the same to its left  *)
(* and to its right; ratio = 2 * matched / (len(a) + len(b)).              *)
(***************************************************************************)
RECURSIVE RunLen(_, _, _, _, _, _)
RunLen(a, b, i, j, ahi, bhi) ==
    IF i < ahi /\ j < bhi /\ a[i] = b[j]
    THEN 1 + RunLen(a, b, i + 1, j + 1, ahi, bhi)
    ELSE 0

RECURSIVE MatchedChars(_, _, _, _, _, _)
MatchedChars(a, b, alo, ahi, blo, bhi) ==
    IF alo >= ahi \/ blo >= bhi THEN 0
    ELSE LET k == Max({RunLen(a, b, i, j, ahi, bhi) :
                          i \in alo..(ahi - 1), j \in blo..(bhi - 1)})
         IN IF k = 0 THEN 0
            ELSE LET i == Min({x \in alo..(ahi - 1) :
                                  \E y \in blo..(bhi - 1) : RunLen(a, b, x, y, ahi, bhi) = k})
                     j == Min({y \in blo..(bhi - 1) : RunLen(a, b, i, y, ahi, bhi) = k})
                 IN MatchedChars(a, b, alo, i, blo, j) + k
                    + MatchedChars(a, b, i + k, ahi, j + k, bhi)

string_similarity(a, b) ==
    IF a = <<>> \/ b = <<>> THEN 0
    ELSE (2 * MatchedChars(a, b, 1, Len(a) + 1, 1, Len(b) + 1) * Scale) \div (Len(a) + Len(b))

\* kw in n_title, for strings.
IsSubstring(kw, s) ==
    \E i \in 1..(Len(s) - Len(kw) + 1) : SubSeq(s, i, i + Len(kw) - 1) = kw

(***************************************************************************)
(* The embedding service and the inner-product index.  The service is a    *)
(* fixed function of the text; a vector is a direction in the plane, in    *)
(* steps of 60 degrees, and the score of two normalized vectors is the     *)
(* cosine of their angle.                                                  *)
(***************************************************************************)
CharCode(c) ==
    CASE c = "a" -> 1 [] c = "b" -> 2 [] c = "c" -> 3 [] c = "A" -> 4 [] c = "B" -> 5
      [] c = "1" -> 0 [] c = "2" -> 1 [] c = " " -> 3 [] OTHER -> 2

RECURSIVE CodeSum(_)
CodeSum(s) == IF s = <<>> THEN 0 ELSE CharCode(Head(s)) + CodeSum(Tail(s))

Embed(text) == CodeSum(text) % 6

Cosine(u, v) ==
    LET d == (u - v + 6) % 6
    IN CASE d = 0 -> Scale
         [] d \in {1, 5} -> Scale \div 2
         [] d \in {2, 4} -> -(Scale \div 2)
         [] OTHER -> -Scale

\* The positions of xs ordered by descending score, equal scores in position order.
RECURSIVE SortDesc(_, _)
SortDesc(score, S) ==
    IF S = {} THEN <<>>
    ELSE LET best == CHOOSE i \in S :
                         \A j \in S : score[i] > score[j] \/ (score[i] = score[j] /\ i <= j)
         IN <<best>> \o SortDesc(score, S \ {best})

(***************************************************************************)
(* Taxonomy records.  load_noc_entries gives every record the keys noc,    *)
(* related_titles and keywords; teer and the duties snippet are copied     *)
(* into a result unchanged and are left out.                               *)
(***************************************************************************)
Entry(noc, title, related, keywords, duties) ==
    [noc |-> noc, title |-> title, related_titles |-> related,
     keywords |-> keywords, duties |-> duties]

E_ab == Entry(<<"1", "2">>, <<"a", "b">>, <<>>, << <<"a">> >>, <<"a">>)

E_Ab == Entry(<<"2", "1">>, <<"A", "b">>, << <<"c", "!", "b">> >>, <<>>, <<"b">>)

E_cb == Entry(<<"1">>, <<"c", "!", "b">>, <<>>, << <<"B">>, <<"c">> >>, <<"c">>)

E_num == Entry(<<"2">>, <<"1", "2">>, <<>>, <<>>, <<"a", "b">>)

E_notitle == Entry(<<"1", "1">>, <<>>, << <<"a", "b">> >>, <<>>, <<"a", "a">>)

TitlePool == {E_ab, E_Ab, E_cb, E_num, E_notitle}

SeqsUpTo(S, n) == UNION {[1..k -> S] : k \in 0..n}

TitlesOf(es) == [i \in 1..Len(es) |-> es[i].title]

DutiesOf(es) == [i \in 1..Len(es) |-> es[i].duties]

(***************************************************************************)
(* match_by_title                                                          *)
(***************************************************************************)
Result(e, score) == [noc |-> e.noc, title |-> e.title, score |-> score]

Returned(path, result, embed_calls, embed_failed) ==
    [failed |-> FALSE, result |-> result, embed_calls |-> embed_calls,
     embed_failed |-> embed_failed, path |-> path]

Raised(path, embed_calls, embed_failed) ==
    [failed |-> TRUE, result |-> <<>>, embed_calls |-> embed_calls,
     embed_failed |-> embed_failed, path |-> path]

\* Variant: the empty-taxonomy return is missing.
NoEntries_never(es) == FALSE

NoEntries(es) == es = <<>>

\* Variant: the numeric shortcut is missing.
code_shortcut_absent(es, title) == <<>>

\* The numeric NOC shortcut: the first entry whose noc is the stripped title.
code_shortcut(es, title) ==
    LET t_raw == Strip(title)
        hits == {i \in 1..Len(es) : es[i].noc = t_raw}
    IN IF isdigit(t_raw) /\ hits # {} THEN <<Result(es[Min(hits)], Scale)>> ELSE <<>>

RelatedNorms(e) ==
    {normalize_text(e.related_titles[j]) :
        j \in {x \in 1..Len(e.related_titles) : e.related_titles[x] # <<>>}}

\* Variant: only the title is compared, the related titles are not.
IsImmediate_title_only(e, n_title) ==
    e.title # <<>> /\ n_title = normalize_text(e.title)

IsImmediate(e, n_title) ==
    /\ e.title # <<>>
    /\ (n_title = normalize_text(e.title) \/ n_title \in RelatedNorms(e))

RECURSIVE immediate(_, _)
immediate(es, n_title) ==
    IF es = <<>> THEN <<>>
    ELSE (IF IsImmediate(Head(es), n_title) THEN <<Result(Head(es), Scale)>> ELSE <<>>)
         \o immediate(Tail(es), n_title)

\* Variant: the results are not deduplicated.
dedup_absent(rs, seen) == rs

\* Dedupe by noc, the first occurrence kept.
RECURSIVE dedup(_, _)
dedup(rs, seen) ==
    IF rs = <<>> THEN <<>>
    ELSE IF Head(rs).noc \in seen THEN dedup(Tail(rs), seen)
         ELSE <<Head(rs)>> \o dedup(Tail(rs), seen \cup {Head(rs).noc})

\* index.search(qvec, k) of an IndexFlatIP over the vectors of texts: the k best
\* positions, best first.
IndexSearch(qtext, texts, k) ==
    LET score == [i \in 1..Len(texts) |-> Cosine(Embed(qtext), Embed(texts[i]))]
    IN PySlice(SortDesc(score, 1..Len(texts)), k)

\* emb_score_map: position -> score, empty when there is no title index or the
\* embedding call failed.
emb_score_map(title, up, tidx) ==
    IF tidx = None \/ ~up THEN <<>>
    ELSE LET found == IndexSearch(title, tidx, Min({TitleCandidates, Len(tidx)}))
             cand == {found[x] : x \in 1..Len(found)}
         IN [i \in cand |-> Cosine(Embed(title), Embed(tidx[i]))]

string_score(e, n_title) ==
    LET sscore == string_similarity(n_title, normalize_text(e.title))
        relscore == Max({0} \cup {string_similarity(n_title, normalize_text(e.related_titles[j])) :
                                     j \in 1..Len(e.related_titles)})
    IN Max({sscore, relscore})

keyword_matches(e, n_title) ==
    Cardinality({j \in 1..Len(e.keywords) :
        /\ e.keywords[j] # <<>>
        /\ normalize_text(e.keywords[j]) # <<>>
        /\ IsSubstring(normalize_text(e.keywords[j]), n_title)})

\* Variant: the keyword boost is added to the string score as well as to the
\* fused score.
combined_score_reboosted(e, n_title, emb_score) ==
    LET boost == (Scale \div 20) * Min({keyword_matches(e, n_title), 3})
        lexical == Min({Scale, string_score(e, n_title) + boost})
        combined == (7 * lexical + 3 * emb_score) \div 10
    IN Min({Scale, combined + boost})

combined_score(e, n_title, emb_score) ==
    LET combined == (7 * string_score(e, n_title) + 3 * emb_score) \div 10
    IN Min({Scale, combined + (Scale \div 20) * Min({keyword_matches(e, n_title), 3})})

fuzzy(es, title, top_k, up, tidx) ==
    LET n_title == normalize_text(title)
        emb == emb_score_map(title, up, tidx)
        score == [i \in 1..Len(es) |->
                     combined_score(es[i], n_title, IF i \in DOMAIN emb THEN emb[i] ELSE 0)]
        order == PySlice(SortDesc(score, 1..Len(es)), top_k)
    IN [x \in 1..Len(order) |-> Result(es[order[x]], score[order[x]])]

\* Variant: the query is embedded before the exact strategies are tried.
match_by_title_eager(es, title, top_k, up, tidx) ==
    LET calls == IF tidx = None THEN 0 ELSE 1
        embed_failed == tidx # None /\ ~up
    IN IF NoEntries(es) THEN Returned("empty", <<>>, 0, FALSE)
       ELSE IF code_shortcut(es, title) # <<>>
       THEN Returned("code", code_shortcut(es, title), calls, embed_failed)
       ELSE IF immediate(es, normalize_text(title)) # <<>>
       THEN Returned("exact", PySlice(dedup(immediate(es, normalize_text(title)), {}), top_k),
                     calls, embed_failed)
       ELSE Returned("fuzzy", fuzzy(es, title, top_k, up, tidx), calls, embed_failed)

\* Variant: the query is embedded once for every taxonomy entry.
title_embed_calls_per_entry(es, tidx) == IF tidx = None THEN 0 ELSE Len(es)

\* The embedding calls of the fuzzy strategy: the title is embedded once, before
\* the loop over the entries, when a title index is loaded.
title_embed_calls(es, tidx) == IF tidx = None THEN 0 ELSE 1

match_by_title(es, title, top_k, up, tidx) ==
    IF NoEntries(es) THEN Returned("empty", <<>>, 0, FALSE)
    ELSE IF code_shortcut(es, title) # <<>>
    THEN Returned("code", code_shortcut(es, title), 0, FALSE)
    ELSE IF immediate(es, normalize_text(title)) # <<>>
    THEN Returned("exact", PySlice(dedup(immediate(es, normalize_text(title)), {}), top_k),
                  0, FALSE)
    ELSE Returned("fuzzy", fuzzy(es, title, top_k, up, tidx),
                  title_embed_calls(es, tidx), tidx # None /\ ~up)

(***************************************************************************)
(* match_by_title_cached: functools.lru_cache keyed by the arguments.      *)
(* An entry also records whether the embedding call of the computation     *)
(* that produced it failed.                                                *)
(***************************************************************************)
CacheKeys(c) == {c[i].key : i \in 1..Len(c)}

CacheAt(c, key) == CHOOSE i \in 1..Len(c) : c[i].key = key

Without(c, i) == SubSeq(c, 1, i - 1) \o SubSeq(c, i + 1, Len(c))

\* Variant: a hit leaves the entry where it is.
lru_hit_unmoved(c, key) == c

\* A hit moves the entry to the most recently used end.
lru_hit(c, key) == Without(c, CacheAt(c, key)) \o <<c[CacheAt(c, key)]>>

\* A miss stores the value and evicts the least recently used entry when full.
lru_store(c, key, r) ==
    LET grown == c \o <<[key |-> key, value |-> r.result, embed_failed |-> r.embed_failed]>>
    IN IF Len(grown) > LruMaxSize THEN Tail(grown) ELSE grown

(***************************************************************************)
(* embeddings.py: the index file and the stored vectors.  A stored vector  *)
(* is kept as the text it was computed from.                               *)
(***************************************************************************)
load_faiss(favail, ffile) == IF ~favail \/ ffile = None THEN None ELSE ffile

\* The score FAISS reports in a padding slot (the lowest float32).
PadScore == -(Scale * Scale)

(***************************************************************************)
(* match_query                                                             *)
(***************************************************************************)
brute_force(es, query, k, efile) ==
    LET score == [i \in 1..Len(efile) |-> Cosine(Embed(query), Embed(efile[i]))]
        idxs == PySlice(SortDesc(score, 1..Len(efile)), k)
    IN IF \E x \in 1..Len(idxs) : idxs[x] > Len(es)
       THEN Raised("brute", 1, FALSE)
       ELSE Returned("brute", [x \in 1..Len(idxs) |-> Result(es[idxs[x]], score[idxs[x]])],
                     1, FALSE)

\* index.search pads with position -1 when k exceeds the number of vectors, and
\* entries[-1] is the last entry.
faiss_search(es, query, k, index) ==
    LET found == IndexSearch(query, index, k)
        pads == k - Len(found)
    IN IF k <= 0 \/ \E x \in 1..Len(found) : found[x] > Len(es)
       THEN Raised("faiss", 1, FALSE)
       ELSE Returned("faiss",
                [x \in 1..Len(found) |->
                    Result(es[found[x]], Cosine(Embed(query), Embed(index[found[x]])))]
                \o [x \in 1..pads |-> Result(es[Len(es)], PadScore)],
                1, FALSE)

\* Variant: a failed embedding call is caught and an empty list returned.
match_query_swallow(es, query, top_k, up, favail, ffile, efile) ==
    LET k == IF top_k = 0 THEN TOP_K ELSE top_k
    IN IF NoEntries(es) THEN Returned("empty", <<>>, 0, FALSE)
       ELSE IF ~up THEN Returned("embed", <<>>, 1, TRUE)
       ELSE IF load_faiss(favail, ffile) = None
       THEN (IF efile = None THEN Raised("brute", 1, FALSE)
             ELSE brute_force(es, query, k, efile))
       ELSE faiss_search(es, query, k, load_faiss(favail, ffile))

match_query(es, query, top_k, up, favail, ffile, efile) ==
    LET k == IF top_k = 0 THEN TOP_K ELSE top_k
    IN IF NoEntries(es) THEN Returned("empty", <<>>, 0, FALSE)
       ELSE IF ~up THEN Raised("embed", 1, TRUE)
       ELSE IF load_faiss(favail, ffile) = None
       THEN (IF efile = None THEN Raised("brute", 1, FALSE)
             ELSE brute_force(es, query, k, efile))
       ELSE faiss_search(es, query, k, load_faiss(favail, ffile))

(***************************************************************************)
(* The calls.  One caller: a call is made when the previous one has        *)
(* returned and its result has been taken (Return).                        *)
(***************************************************************************)
Call(op, title, top_k, up, hit, r) ==
    [op |-> op, title |-> title, top_k |-> top_k, up |-> up, hit |-> hit,
     failed |-> r.failed, result |-> r.result, embed_calls |-> r.embed_calls,
     embed_failed |-> r.embed_failed, path |-> r.path]

NoCall == Call("none", <<>>, 0, TRUE, FALSE, Returned("none", <<>>, 0, FALSE))

Idle == last.op = "none"

\* No match_query is in progress.
NoQuery ==
    [pc |-> "idle", text |-> <<>>, top_k |-> 0, entries |-> <<>>, vectors |-> None,
     aligned |-> FALSE, failed |-> FALSE, result |-> <<>>]

\* No prepare_and_build_index is in progress.
NoRebuild ==
    [pc |-> "idle", force |-> FALSE, entries |-> <<>>, vectors |-> None, failed |-> FALSE]

MatchByTitleCall(title, top_k, up) ==
    /\ Idle
    /\ last' = Call("match_by_title", title, top_k, up, FALSE,
                    match_by_title(entries, title, top_k, up, title_index))
    /\ UNCHANGED <<entries, title_index, faiss_available, store, emb_file, faiss_file, cache,
                   querying, rebuilding>>

\* The ways top_k reaches match_by_title_cached: f(t, k), f(t, top_k=k) and f(t).
CallStyles == {"positional", "keyword", "default"}

\* The key lru_cache makes of a call: the positional arguments, then the keyword
\* arguments behind a marker; the title is taken as it was passed.
make_key(title, top_k, style) == <<title, top_k, style>>

MatchByTitleCachedCall(title, top_k, style, up) ==
    LET k == IF style = "default" THEN DefaultTopK ELSE top_k
        key == make_key(title, k, style)
        r == match_by_title(entries, title, k, up, title_index)
    IN /\ Idle
       /\ IF key \in CacheKeys(cache)
          THEN /\ cache' = lru_hit(cache, key)
               /\ last' = Call("match_by_title_cached", title, k, up, TRUE,
                               Returned("hit", cache[CacheAt(cache, key)].value, 0, FALSE))
          ELSE /\ cache' = IF r.failed THEN cache ELSE lru_store(cache, key, r)
               /\ last' = Call("match_by_title_cached", title, k, up, FALSE, r)
       /\ UNCHANGED <<entries, title_index, faiss_available, store, emb_file, faiss_file,
                      querying, rebuilding>>

MatchQueryCall(query, top_k, up) ==
    /\ Idle
    /\ last' = Call("match_query", query, top_k, up, FALSE,
                    match_query(entries, query, top_k, up, faiss_available,
                                faiss_file, emb_file))
    /\ UNCHANGED <<entries, title_index, faiss_available, store, emb_file, faiss_file, cache,
                   querying, rebuilding>>

\* noc_data.jsonl is replaced; every later load_noc_entries reads the new records.
ChangeData(new) ==
    /\ Idle
    /\ new # entries
    /\ entries' = new
    /\ UNCHANGED <<title_index, faiss_available, store, emb_file, faiss_file, cache, last,
                   querying, rebuilding>>

\* Whether prepare_and_build_index returns the entries without building.
UpToDate(force, favail, ffile, efile) ==
    efile # None /\ ~force /\ load_faiss(favail, ffile) # None

\* What prepare_and_build_index returns: the list of the entries it loaded.
EntryList(es) == [list |-> es]

\* Variant: the check for an empty taxonomy is missing.
PrepareAndBuildIndex_unchecked(force, up) ==
    /\ Idle
    /\ IF UpToDate(force, faiss_available, faiss_file, emb_file)
       THEN /\ last' = Call("prepare", <<>>, 0, up, FALSE,
                            Returned("loaded", EntryList(entries), 0, FALSE))
            /\ UNCHANGED <<emb_file, faiss_file>>
       ELSE IF ~up
       THEN /\ last' = Call("prepare", <<>>, 0, up, FALSE, Raised("build", 1, TRUE))
            /\ UNCHANGED <<emb_file, faiss_file>>
       ELSE /\ last' = Call("prepare", <<>>, 0, up, FALSE,
                            Returned("build", EntryList(entries), 1, FALSE))
            /\ faiss_file' = IF faiss_available THEN DutiesOf(entries) ELSE faiss_file
            /\ emb_file' = DutiesOf(entries)
    /\ UNCHANGED <<entries, title_index, faiss_available, store, cache, querying, rebuilding>>

PrepareAndBuildIndex(force, up) ==
    /\ Idle
    /\ IF NoEntries(entries)
       THEN /\ last' = Call("prepare", <<>>, 0, up, FALSE, Raised("empty", 0, FALSE))
            /\ UNCHANGED <<emb_file, faiss_file>>
       ELSE IF UpToDate(force, faiss_available, faiss_file, emb_file)
       THEN /\ last' = Call("prepare", <<>>, 0, up, FALSE,
                            Returned("loaded", EntryList(entries), 0, FALSE))
            /\ UNCHANGED <<emb_file, faiss_file>>
       ELSE IF ~up
       THEN /\ last' = Call("prepare", <<>>, 0, up, FALSE, Raised("build", 1, TRUE))
            /\ UNCHANGED <<emb_file, faiss_file>>
       ELSE /\ last' = Call("prepare", <<>>, 0, up, FALSE,
                            Returned("build", EntryList(entries), 1, FALSE))
            /\ faiss_file' = IF faiss_available THEN DutiesOf(entries) ELSE faiss_file
            /\ emb_file' = DutiesOf(entries)
    /\ UNCHANGED <<entries, title_index, faiss_available, store, cache, querying, rebuilding>>

Return ==
    /\ ~Idle
    /\ last' = NoCall
    /\ UNCHANGED <<entries, title_index, faiss_available, store, emb_file, faiss_file, cache,
                   querying, rebuilding>>

(***************************************************************************)
(* app.py: the order store, Stripe Checkout and the webhook.  Every id is  *)
(* a string and Null stands for None and for SQL NULL; amount 0 stands for *)
(* no amount, which the code treats like None (x or default, if amount).   *)
(***************************************************************************)
Null == "NULL"

DEFAULT_PRICE_CENTS == 49900

OrderIds == {"o1", "o2"}

SessionIds == {"cs1", "cs2"}

\* The PaymentIntent Stripe attaches to a Checkout Session.
IntentOf(s) == IF s = "cs1" THEN "pi1" ELSE "pi2"

\* The variables of matcher.py, which no request of app.py touches.
matcher_state ==
    <<entries, title_index, faiss_available, emb_file, faiss_file, cache, last,
      querying, rebuilding>>

Row(amount) ==
    [amount_cents |-> amount, stripe_session_id |-> Null, payment_intent |-> Null,
     paid |-> FALSE]

insert_order_db(os, order_id, amount) ==
    [o \in DOMAIN os \cup {order_id} |-> IF o = order_id THEN Row(amount) ELSE os[o]]

\* Whether get_order_db finds a row.
get_order_db(os, order_id) == order_id \in DOMAIN os

\* The rows find_order_by_session_db may fetch.
find_order_by_session_db(os, session_id) ==
    {o \in DOMAIN os : os[o].stripe_session_id = session_id}

\* Only the arguments that are not None are written, and paid only when True; an
\* UPDATE of a missing row changes nothing.
update_order_stripe_session_db(os, order_id, stripe_session_id, payment_intent, paid) ==
    IF order_id \notin DOMAIN os THEN os
    ELSE [os EXCEPT ![order_id] =
            [@ EXCEPT !.stripe_session_id =
                          IF stripe_session_id # Null THEN stripe_session_id ELSE @,
                      !.payment_intent =
                          IF payment_intent # Null THEN payment_intent ELSE @,
                      !.paid = IF paid THEN TRUE ELSE @]]

Session(order_id, payment_intent, amount) ==
    [order_id |-> order_id, payment_status |-> "unpaid",
     payment_intent |-> payment_intent, amount_total |-> amount]

\* A request, its response status, whether stripe.Webhook.construct_event
\* accepted it, and the payment_status download read from Stripe.
Request(route, status, verified, payment_status) ==
    [route |-> route, status |-> status, verified |-> verified,
     payment_status |-> payment_status]

NoRequest == Request("none", 0, FALSE, Null)

\* The request is answered with an error and nothing is written.
Refuse(route, status, payment_status) ==
    /\ request' = Request(route, status, FALSE, payment_status)
    /\ UNCHANGED <<orders, sessions>>

\* The state of app.py while only matcher.py is exercised.
StoreUnused ==
    /\ orders = <<>>
    /\ sessions = <<>>
    /\ STRIPE_WEBHOOK_SECRET = FALSE
    /\ request = NoRequest

\* POST /create_order; db tells whether the database can be reached.
CreateOrder(data, db) ==
    /\ IF ~data THEN Refuse("create_order", 400, Null)
       ELSE IF ~db THEN Refuse("create_order", 500, Null)
       ELSE \E order_id \in OrderIds \ DOMAIN orders :
               /\ orders' = insert_order_db(orders, order_id, 0)
               /\ request' = Request("create_order", 200, FALSE, Null)
               /\ UNCHANGED sessions
    /\ UNCHANGED <<STRIPE_WEBHOOK_SECRET, matcher_state>>

\* POST /create_checkout; stripe_up tells whether Stripe answers, intent_now
\* whether the new session already carries its PaymentIntent.
CreateCheckout(order_id, db, stripe_up, intent_now) ==
    /\ IF order_id = Null THEN Refuse("create_checkout", 400, Null)
       ELSE IF ~db THEN Refuse("create_checkout", 500, Null)
       ELSE IF ~get_order_db(orders, order_id) THEN Refuse("create_checkout", 404, Null)
       ELSE IF ~stripe_up THEN Refuse("create_checkout", 500, Null)
       ELSE \E s \in SessionIds \ DOMAIN sessions :
               LET amount == IF orders[order_id].amount_cents # 0
                             THEN orders[order_id].amount_cents
                             ELSE DEFAULT_PRICE_CENTS
                   intent == IF intent_now THEN IntentOf(s) ELSE Null
               IN /\ sessions' = [x \in DOMAIN sessions \cup {s} |->
                                     IF x = s THEN Session(order_id, intent, amount)
                                     ELSE sessions[x]]
                  /\ orders' = update_order_stripe_session_db(orders, order_id, s, intent,
                                                              FALSE)
                  /\ request' = Request("create_checkout", 200, FALSE, Null)
    /\ UNCHANGED <<STRIPE_WEBHOOK_SECRET, matcher_state>>

\* The customer pays on the page Stripe hosts for the session.
Pay(s) ==
    /\ s \in DOMAIN sessions
    /\ sessions[s].payment_status = "unpaid"
    /\ sessions' = [sessions EXCEPT ![s].payment_status = "paid",
                                    ![s].payment_intent = IntentOf(s)]
    /\ UNCHANGED <<orders, STRIPE_WEBHOOK_SECRET, request, matcher_state>>

\* GET /download?session_id=...
Download(session_id, db, stripe_up) ==
    /\ IF session_id = Null THEN Refuse("download", 400, Null)
       ELSE IF ~stripe_up THEN Refuse("download", 500, Null)
       ELSE IF session_id \notin DOMAIN sessions THEN Refuse("download", 400, Null)
       ELSE IF sessions[session_id].payment_status # "paid"
       THEN Refuse("download", 402, sessions[session_id].payment_status)
       ELSE IF ~db THEN Refuse("download", 500, "paid")
       ELSE LET meta == sessions[session_id].order_id
                found == IF meta # Null THEN {meta}
                         ELSE find_order_by_session_db(orders, session_id)
            IN IF \A o \in found : ~get_order_db(orders, o)
               THEN Refuse("download", 404, "paid")
               ELSE \E order_id \in found :
                       /\ get_order_db(orders, order_id)
                       /\ orders' = update_order_stripe_session_db(
                                        orders, order_id, session_id,
                                        sessions[session_id].payment_intent, TRUE)
                       /\ request' = Request("download", 200, FALSE, "paid")
                       /\ UNCHANGED sessions
    /\ UNCHANGED <<STRIPE_WEBHOOK_SECRET, matcher_state>>

Event(type, id, order_id, payment_intent, amount_total) ==
    [type |-> type, id |-> id, order_id |-> order_id, payment_intent |-> payment_intent,
     amount_total |-> amount_total]

\* The events Stripe signs and sends for the sessions that were paid.
GenuineEvents ==
    {Event("checkout.session.completed", s, sessions[s].order_id,
           sessions[s].payment_intent, sessions[s].amount_total) :
        s \in {x \in DOMAIN sessions : sessions[x].payment_status = "paid"}}
    \cup {Event("payment_intent.succeeded", IntentOf(s), Null, Null,
                sessions[s].amount_total) :
             s \in {x \in DOMAIN sessions : sessions[x].payment_status = "paid"}}

\* Every event Stripe could sign for a session of this account.
StripeEvents ==
    {Event("checkout.session.completed", s, o, IntentOf(s), DEFAULT_PRICE_CENTS) :
        s \in SessionIds, o \in OrderIds}
    \cup {Event("payment_intent.succeeded", IntentOf(s), Null, Null, DEFAULT_PRICE_CENTS) :
             s \in SessionIds}

\* Request bodies anybody can post: events of any content, and a body that is
\* not JSON.
PostedEvents ==
    {Event(type, id, order_id, Null, amount) :
        type \in {"checkout.session.completed", "payment_intent.succeeded",
                  "customer.created"},
        id \in {Null, "cs1"}, order_id \in {Null, "o1"},
        amount \in {0, DEFAULT_PRICE_CENTS}}
    \cup {Event("not json", Null, Null, Null, 0)}

\* The rows the handler of checkout.session.completed may pick when the event
\* names no order: one with the event's amount and no session.
ByAmount(os, amount) ==
    {o \in DOMAIN os : os[o].amount_cents = amount /\ os[o].stripe_session_id = Null}

\* The rows the handler of payment_intent.succeeded may pick; a comparison with
\* None is IS NULL.
ByIntent(os, pi_id) ==
    {o \in DOMAIN os : os[o].payment_intent = pi_id \/ os[o].stripe_session_id = pi_id}

\* The webhook answers {"received": true}; os is the order store it leaves.
Received(os, verified) ==
    /\ orders' = os
    /\ request' = Request("webhook", 200, verified, Null)
    /\ UNCHANGED sessions

\* POST /webhook; sig is the Stripe-Signature header: absent ("none"), made by
\* Stripe for this body ("valid") or anything else ("invalid").
Webhook(sig, event, db) ==
    LET checked == STRIPE_WEBHOOK_SECRET /\ sig # "none"
    IN /\ sig = "valid" => event \in GenuineEvents
       /\ sig # "valid" => event \in PostedEvents
       /\ IF checked /\ sig # "valid" THEN Refuse("webhook", 400, Null)
          ELSE IF event.type = "not json" THEN Refuse("webhook", 400, Null)
          ELSE IF event.type = "checkout.session.completed"
          THEN IF event.order_id # Null
               THEN IF ~db THEN Refuse("webhook", 500, Null)
                    ELSE Received(update_order_stripe_session_db(
                                  IF get_order_db(orders, event.order_id) THEN orders
                                  ELSE insert_order_db(orders, event.order_id,
                                                       event.amount_total),
                                  event.order_id, event.id, event.payment_intent, TRUE), checked)
               ELSE IF ~db \/ event.amount_total = 0
                       \/ ByAmount(orders, event.amount_total) = {}
               THEN Received(orders, checked)
               ELSE \E oid \in ByAmount(orders, event.amount_total) :
                       Received(update_order_stripe_session_db(
                                orders, oid, event.id, event.payment_intent, TRUE), checked)
          ELSE IF event.type = "payment_intent.succeeded"
          THEN IF ~db \/ ByIntent(orders, event.id) = {}
               THEN Received(orders, checked)
               ELSE \E oid \in ByIntent(orders, event.id) :
                       Received(update_order_stripe_session_db(orders, oid, Null, Null, TRUE),
                                checked)
          ELSE Received(orders, checked)
       /\ UNCHANGED <<STRIPE_WEBHOOK_SECRET, matcher_state>>

(***************************************************************************)
(* The service: the data file changes, the index is built, and titles and  *)
(* duty texts are looked up, in any order.                                 *)
(***************************************************************************)
ServiceTaxonomies == {<<>>, <<E_ab>>, <<E_cb, E_ab>>}

ServiceTitles == {<<"a", "b">>, <<"a", "c">>, <<"c", " ", "b">>}

ServiceQueries == {<<"a", "b">>, <<"b", "c">>}

ServiceTopKs == {0, 2}

Init ==
    /\ entries \in ServiceTaxonomies
    /\ title_index \in {None} \cup {TitlesOf(t) : t \in ServiceTaxonomies \ {<<>>}}
    /\ faiss_available \in BOOLEAN
    /\ emb_file = None
    /\ faiss_file = None
    /\ cache = <<>>
    /\ last = NoCall
    /\ querying = NoQuery
    /\ rebuilding = NoRebuild
    /\ StoreUnused

Next ==
    \/ \E new \in ServiceTaxonomies : ChangeData(new)
    \/ \E force \in BOOLEAN, up \in BOOLEAN : PrepareAndBuildIndex(force, up)
    \/ \E t \in ServiceTitles, up \in BOOLEAN : MatchByTitleCachedCall(t, 2, "positional", up)
    \/ \E t \in ServiceTitles, up \in BOOLEAN : MatchByTitleCall(t, 2, up)
    \/ \E q \in ServiceQueries, k \in ServiceTopKs, up \in BOOLEAN : MatchQueryCall(q, k, up)
    \/ Return

Spec == Init /\ [][Next]_vars

(***************************************************************************)
(* Title lookups over every taxonomy of at most MaxEntries records.        *)
(***************************************************************************)
TitleQueries ==
    {<<"a", "b">>, <<"A", "b">>, <<"c", "!", "b">>, <<"c", "b">>, <<"1", "2">>, <<>>,
     <<" ", "1", "2">>, <<"2", "1">>, <<"2", "2">>, <<"a", "c">>}

TitleTopKs == {-1, 0, 1, 2, 5}

InitTitle ==
    /\ entries \in SeqsUpTo(TitlePool, MaxEntries)
    /\ title_index \in {None} \cup (IF entries = <<>> THEN {} ELSE {TitlesOf(entries)})
    /\ faiss_available = FALSE
    /\ emb_file = None
    /\ faiss_file = None
    /\ cache = <<>>
    /\ last = NoCall
    /\ querying = NoQuery
    /\ rebuilding = NoRebuild
    /\ StoreUnused

NextTitle ==
    \/ \E t \in TitleQueries, k \in TitleTopKs, up \in BOOLEAN : MatchByTitleCall(t, k, up)
    \/ Return

SpecTitle == InitTitle /\ [][NextTitle]_vars

(***************************************************************************)
(* Cached title lookups in every call style, over one taxonomy.            *)
(***************************************************************************)
CacheTitles == {<<"a", "b">>, <<"A", "b">>, <<"a", "c">>}

CacheCalls ==
    {<<DefaultTopK, "positional">>, <<DefaultTopK, "keyword">>, <<DefaultTopK, "default">>,
     <<2, "positional">>}

InitCache ==
    /\ entries = <<E_cb, E_ab>>
    /\ title_index \in {None, TitlesOf(entries)}
    /\ faiss_available = FALSE
    /\ emb_file = None
    /\ faiss_file = None
    /\ cache = <<>>
    /\ last = NoCall
    /\ querying = NoQuery
    /\ rebuilding = NoRebuild
    /\ StoreUnused

NextCache ==
    \/ \E t \in CacheTitles, c \in CacheCalls, up \in BOOLEAN :
          MatchByTitleCachedCall(t, c[1], c[2], up)
    \/ Return

SpecCache == InitCache /\ [][NextCache]_vars

(***************************************************************************)
(* Title lookups over one taxonomy that is longer than the candidate width *)
(* of the title index search.                                              *)
(***************************************************************************)
FuzzyTaxonomy ==
    << Entry(<<"1">>, <<"a">>, <<>>, <<>>, <<"a">>),
       Entry(<<"2">>, <<"b">>, <<>>, <<>>, <<"b">>),
       Entry(<<"1", "1">>, <<"c">>, <<>>, <<>>, <<"c">>),
       Entry(<<"1", "2">>, <<"a", "b">>, <<>>, << <<"a">> >>, <<"a", "b">>),
       Entry(<<"2", "1">>, <<"b", "a">>, <<>>, << <<"a">>, <<"B">> >>, <<"b", "a">>),
       Entry(<<"2", "2">>, <<"a", "c">>, <<>>, <<>>, <<"a", "c">>),
       Entry(<<"1", "1", "1">>, <<"c", "a">>, <<>>,
             << <<"c">>, <<"a">>, <<"a", "c">>, <<"c", "a">>, <<>> >>, <<"c", "a">>),
       Entry(<<"1", "1", "2">>, <<"b", "c">>, <<>>, <<>>, <<"b", "c">>),
       Entry(<<"1", "2", "1">>, <<"c", "b">>, << <<"a", "b", "c">> >>, <<>>, <<"c", "b">>),
       Entry(<<"1", "2", "2">>, <<"a", "a">>, <<>>, <<>>, <<"a", "a">>),
       Entry(<<"2", "1", "1">>, <<>>, << <<"c", " ", "b">>, <<"a", "c", "a">> >>,
             << <<"c">>, <<"a", "c">>, <<"a">> >>, <<"b", "b">>) >>

FuzzyQueries ==
    {<<"a", "c", "a", "b">>, <<"a", "c", "a">>, <<"c", "a", "b">>, <<"A", "B", "c", "a">>,
     <<"b", "c", "a">>, <<"b", "!", "a">>, <<"a", "b", "!">>, <<"c", "c">>, <<"2", "2">>,
     <<"a", "b">>, <<"a", "c", "a", "2">>}

FuzzyTopKs == {1, 3, 11}

InitFuzzy ==
    /\ entries = FuzzyTaxonomy
    /\ title_index \in {None, TitlesOf(entries)}
    /\ faiss_available = FALSE
    /\ emb_file = None
    /\ faiss_file = None
    /\ cache = <<>>
    /\ last = NoCall
    /\ querying = NoQuery
    /\ rebuilding = NoRebuild
    /\ StoreUnused

NextFuzzy ==
    \/ \E t \in FuzzyQueries, k \in FuzzyTopKs, up \in BOOLEAN : MatchByTitleCall(t, k, up)
    \/ Return

SpecFuzzy == InitFuzzy /\ [][NextFuzzy]_vars

(***************************************************************************)
(* One match_query and one prepare_and_build_index running concurrently,   *)
(* each taken one file access or service call at a time, while the data    *)
(* file may be replaced.  Nothing in matcher.py or embeddings.py locks a    *)
(* file or holds a snapshot, so the steps interleave freely.  A file is    *)
(* read and written in one step.                                           *)
(***************************************************************************)
\* Whether the stored vectors were computed from the records es, one by one.
Aligned(es, favail, ffile, efile) ==
    efile = DutiesOf(es) /\ (favail => ffile = DutiesOf(es))

\* match_query: entries = load_noc_entries(); an empty list is returned at once.
QueryLoadEntries(text, top_k) ==
    /\ querying.pc = "idle"
    /\ querying' =
          [querying EXCEPT !.pc = IF NoEntries(entries) THEN "done" ELSE "embed",
                           !.text = text, !.top_k = top_k, !.entries = entries,
                           !.aligned = Aligned(entries, faiss_available, faiss_file, emb_file)]
    /\ UNCHANGED <<entries, title_index, faiss_available, store, emb_file, faiss_file, cache, last,
                   rebuilding>>

\* match_query: the query is embedded; a failure of the service is raised.
QueryEmbed(up) ==
    /\ querying.pc = "embed"
    /\ querying' = IF up THEN [querying EXCEPT !.pc = "load_faiss"]
                   ELSE [querying EXCEPT !.pc = "done", !.failed = TRUE]
    /\ UNCHANGED <<entries, title_index, faiss_available, store, emb_file, faiss_file, cache, last,
                   rebuilding>>

\* match_query: index = load_faiss(), and the index search when there is one.
QueryLoadFaiss ==
    LET index == load_faiss(faiss_available, faiss_file)
        r == faiss_search(querying.entries, querying.text, querying.top_k, index)
    IN /\ querying.pc = "load_faiss"
       /\ querying' =
             IF index = None THEN [querying EXCEPT !.pc = "load_embeddings"]
             ELSE [querying EXCEPT !.pc = "done", !.vectors = index,
                                   !.failed = r.failed, !.result = r.result]
       /\ UNCHANGED <<entries, title_index, faiss_available, store, emb_file, faiss_file, cache, last,
                      rebuilding>>

\* match_query: vecs = load_embeddings(), and the brute-force ranking.
QueryLoadEmbeddings ==
    LET r == IF emb_file = None THEN Raised("brute", 1, FALSE)
             ELSE brute_force(querying.entries, querying.text, querying.top_k, emb_file)
    IN /\ querying.pc = "load_embeddings"
       /\ querying' = [querying EXCEPT !.pc = "done", !.vectors = emb_file,
                                       !.failed = r.failed, !.result = r.result]
       /\ UNCHANGED <<entries, title_index, faiss_available, store, emb_file, faiss_file, cache, last,
                      rebuilding>>

QueryReturn ==
    /\ querying.pc = "done"
    /\ querying' = NoQuery
    /\ UNCHANGED <<entries, title_index, faiss_available, store, emb_file, faiss_file, cache, last,
                   rebuilding>>

\* prepare_and_build_index: entries = load_noc_entries(); SystemExit when empty.
RebuildLoadEntries(force) ==
    /\ rebuilding.pc = "idle"
    /\ rebuilding' =
          IF NoEntries(entries)
          THEN [rebuilding EXCEPT !.pc = "done", !.force = force, !.failed = TRUE]
          ELSE [rebuilding EXCEPT !.pc = "check", !.force = force, !.entries = entries]
    /\ UNCHANGED <<entries, title_index, faiss_available, store, emb_file, faiss_file, cache, last,
                   querying>>

\* prepare_and_build_index: existing = load_embeddings(), idx = load_faiss().
RebuildCheck ==
    /\ rebuilding.pc = "check"
    /\ rebuilding' =
          [rebuilding EXCEPT !.pc =
              IF UpToDate(rebuilding.force, faiss_available, faiss_file, emb_file)
              THEN "done" ELSE "build"]
    /\ UNCHANGED <<entries, title_index, faiss_available, store, emb_file, faiss_file, cache, last,
                   querying>>

\* prepare_and_build_index: vectors = build_embeddings(texts).
RebuildEmbed(up) ==
    /\ rebuilding.pc = "build"
    /\ rebuilding' =
          IF up THEN [rebuilding EXCEPT !.pc = "write_index",
                                        !.vectors = DutiesOf(rebuilding.entries)]
          ELSE [rebuilding EXCEPT !.pc = "done", !.failed = TRUE]
    /\ UNCHANGED <<entries, title_index, faiss_available, store, emb_file, faiss_file, cache, last,
                   querying>>

\* prepare_and_build_index: build_faiss_index(vectors) writes the index file, or
\* the embeddings file when FAISS is not available.
RebuildWriteIndex ==
    /\ rebuilding.pc = "write_index"
    /\ rebuilding' = [rebuilding EXCEPT !.pc = "save_embeddings"]
    /\ faiss_file' = IF faiss_available THEN rebuilding.vectors ELSE faiss_file
    /\ emb_file' = IF faiss_available THEN emb_file ELSE rebuilding.vectors
    /\ UNCHANGED <<entries, title_index, faiss_available, store, cache, last, querying>>

\* prepare_and_build_index: save_embeddings(vectors).
RebuildSaveEmbeddings ==
    /\ rebuilding.pc = "save_embeddings"
    /\ rebuilding' = [rebuilding EXCEPT !.pc = "done"]
    /\ emb_file' = rebuilding.vectors
    /\ UNCHANGED <<entries, title_index, faiss_available, store, faiss_file, cache, last, querying>>

RebuildReturn ==
    /\ rebuilding.pc = "done"
    /\ rebuilding' = NoRebuild
    /\ UNCHANGED <<entries, title_index, faiss_available, store, emb_file, faiss_file, cache, last,
                   querying>>

RebuildText == <<"a", "b">>

RebuildTopK == 2

InitRebuild ==
    /\ entries \in ServiceTaxonomies
    /\ title_index = None
    /\ faiss_available \in BOOLEAN
    /\ emb_file = None
    /\ faiss_file = None
    /\ cache = <<>>
    /\ last = NoCall
    /\ querying = NoQuery
    /\ rebuilding = NoRebuild
    /\ StoreUnused

NextRebuild ==
    \/ \E new \in ServiceTaxonomies : ChangeData(new)
    \/ QueryLoadEntries(RebuildText, RebuildTopK)
    \/ \E up \in BOOLEAN : QueryEmbed(up)
    \/ QueryLoadFaiss
    \/ QueryLoadEmbeddings
    \/ QueryReturn
    \/ \E force \in BOOLEAN : RebuildLoadEntries(force)
    \/ RebuildCheck
    \/ \E up \in BOOLEAN : RebuildEmbed(up)
    \/ RebuildWriteIndex
    \/ RebuildSaveEmbeddings
    \/ RebuildReturn

SpecRebuild == InitRebuild /\ [][NextRebuild]_vars

(***************************************************************************)
(* normalize_text applied to every text of at most MaxTextLen characters   *)
(* over a letter, a capital, a digit, the space and a punctuation mark.    *)
(* None and the empty string take the same branch (not s).                 *)
(***************************************************************************)
TextChars == {"a", "A", "1", " ", "!"}

Texts == SeqsUpTo(TextChars, MaxTextLen)

NormalizeTextCall(s) ==
    /\ Idle
    /\ last' = Call("normalize_text", s, 0, TRUE, FALSE,
                    Returned("normalize", normalize_text(s), 0, FALSE))
    /\ UNCHANGED <<entries, title_index, faiss_available, store, emb_file, faiss_file, cache,
                   querying, rebuilding>>

InitNormalize ==
    /\ entries = <<>>
    /\ title_index = None
    /\ faiss_available = FALSE
    /\ emb_file = None
    /\ faiss_file = None
    /\ cache = <<>>
    /\ last = NoCall
    /\ querying = NoQuery
    /\ rebuilding = NoRebuild
    /\ StoreUnused

NextNormalize ==
    \/ \E s \in Texts : NormalizeTextCall(s)
    \/ Return

SpecNormalize == InitNormalize /\ [][NextNormalize]_vars

(***************************************************************************)
(* SpecWrapper: raw titles go to match_by_title, their normalized forms to *)
(* match_by_title_cached, over a taxonomy with a title that ends in        *)
(* punctuation and an entry with a one-digit code.                         *)
(***************************************************************************)
E_nec == Entry(<<"1">>, <<"a", "b", "!">>, <<>>, <<>>, <<"a">>)

WrapperTitles ==
    {<<"a", "b">>, <<"a", "b", "!">>, <<"A", "b">>, <<"2", "!">>, <<"c", "!", "b">>}

WrapperTopKs == {1, 2}

InitWrapper ==
    /\ entries = <<E_nec, E_num>>
    /\ title_index \in {None, TitlesOf(entries)}
    /\ faiss_available = FALSE
    /\ emb_file = None
    /\ faiss_file = None
    /\ cache = <<>>
    /\ last = NoCall
    /\ querying = NoQuery
    /\ rebuilding = NoRebuild
    /\ StoreUnused

NextWrapper ==
    \/ \E t \in WrapperTitles, k \in WrapperTopKs, up \in BOOLEAN :
          MatchByTitleCall(t, k, up)
    \/ \E t \in WrapperTitles, k \in WrapperTopKs, up \in BOOLEAN :
          MatchByTitleCachedCall(normalize_text(t), k, "positional", up)
    \/ Return

SpecWrapper == InitWrapper /\ [][NextWrapper]_vars

(***************************************************************************)
(* SpecOrders: orders are created, checked out, paid, downloaded and       *)
(* reported by webhook requests, in any order.                             *)
(***************************************************************************)
InitOrders ==
    /\ entries = <<>>
    /\ title_index = None
    /\ faiss_available = FALSE
    /\ emb_file = None
    /\ faiss_file = None
    /\ cache = <<>>
    /\ last = NoCall
    /\ querying = NoQuery
    /\ rebuilding = NoRebuild
    /\ orders = <<>>
    /\ sessions = <<>>
    /\ STRIPE_WEBHOOK_SECRET \in BOOLEAN
    /\ request = NoRequest

NextOrders ==
    \/ \E data \in BOOLEAN, db \in BOOLEAN : CreateOrder(data, db)
    \/ \E o \in OrderIds \cup {Null}, db \in BOOLEAN, stripe_up \in BOOLEAN,
          intent_now \in BOOLEAN : CreateCheckout(o, db, stripe_up, intent_now)
    \/ \E s \in SessionIds : Pay(s)
    \/ \E s \in SessionIds \cup {Null}, db \in BOOLEAN, stripe_up \in BOOLEAN :
          Download(s, db, stripe_up)
    \/ \E sig \in {"none", "valid", "invalid"}, e \in StripeEvents \cup PostedEvents,
          db \in BOOLEAN : Webhook(sig, e, db)

SpecOrders == InitOrders /\ [][NextOrders]_vars

(***************************************************************************)
(* Properties.                                                             *)
(***************************************************************************)
IsTitleCall == last.op = "match_by_title"

\* The entries the numeric shortcut finds for the title of the last call.
CodeHits == {j \in 1..Len(entries) : entries[j].noc = Strip(last.title)}

CodeHit == isdigit(Strip(last.title)) /\ CodeHits # {}

\* The entries whose normalized title or a normalized related title is the
\* normalized title of the last call.
ExactHits ==
    {j \in 1..Len(entries) :
        /\ entries[j].title # <<>>
        /\ \/ normalize_text(entries[j].title) = normalize_text(last.title)
           \/ \E x \in 1..Len(entries[j].related_titles) :
                 /\ entries[j].related_titles[x] # <<>>
                 /\ normalize_text(entries[j].related_titles[x]) = normalize_text(last.title)}

IsEntry(r, j) == r.noc = entries[j].noc /\ r.title = entries[j].title

\* C1 (as stated, for the entries with a non-empty title): for every entry e and
\* top_k >= 1, match_by_title(e.title, top_k) returns a list whose first result
\* has code e.noc and score 1.0.
C1_TopIsTheEntry ==
    (IsTitleCall /\ last.top_k >= 1 /\ last.title # <<>>) =>
        \A i \in 1..Len(entries) :
            entries[i].title = last.title =>
                /\ ~last.failed
                /\ last.result # <<>>
                /\ last.result[1].noc = entries[i].noc
                /\ last.result[1].score = Scale

\* C1 (amended): for every entry e with a non-empty title and top_k >= 1,
\* match_by_title(e.title, top_k) returns a list whose first result has score 1.0
\* and is the first entry, in taxonomy order, that has a non-empty title and whose
\* normalized title or related title is the normalized e.title; when the stripped
\* e.title is all digits and is the code of an entry, the first result is the
\* first entry with that code instead.
C1_TopIsFirstMatch ==
    (IsTitleCall /\ last.top_k >= 1) =>
        \A i \in 1..Len(entries) :
            (entries[i].title = last.title /\ last.title # <<>>) =>
                /\ ~last.failed
                /\ last.result # <<>>
                /\ last.result[1].score = Scale
                /\ IsEntry(last.result[1],
                           IF CodeHit THEN Min(CodeHits) ELSE Min(ExactHits))

\* An entry's title was looked up and an earlier entry with another code, which
\* shares the normalized title or has it as a related title, came first.
C1_Witness ==
    /\ IsTitleCall /\ last.top_k >= 1 /\ ~CodeHit /\ ExactHits # {}
    /\ \E i \in 1..Len(entries) :
          /\ entries[i].title = last.title
          /\ Min(ExactHits) < i
          /\ entries[Min(ExactHits)].noc # entries[i].noc
          /\ IsEntry(last.result[1], Min(ExactHits))

\* C2: for an all-digit code c of some entry, match_by_title(c, 1) returns exactly
\* one result, an entry whose code is c, at score 1.0; an all-digit title that is
\* no entry's code falls through to the exact and fuzzy strategies and, on a
\* non-empty taxonomy, still returns a result.
C2_CodeLookup ==
    (IsTitleCall /\ last.top_k = 1 /\ isdigit(last.title) /\ entries # <<>>) =>
        /\ ~last.failed
        /\ Len(last.result) = 1
        /\ (\E j \in 1..Len(entries) : entries[j].noc = last.title) =>
              /\ last.result[1].noc = last.title
              /\ last.result[1].score = Scale
              /\ \E j \in 1..Len(entries) :
                    entries[j].noc = last.title /\ IsEntry(last.result[1], j)
        /\ (\A j \in 1..Len(entries) : entries[j].noc # last.title) =>
              /\ last.path \in {"exact", "fuzzy"}
              /\ \E j \in 1..Len(entries) : IsEntry(last.result[1], j)

\* A code was looked up whose entry is not the first of the taxonomy and has
\* another title than the code.
C2_Witness ==
    /\ IsTitleCall /\ last.top_k = 1 /\ isdigit(last.title)
    /\ Len(entries) = 2
    /\ entries[2].noc = last.title /\ entries[1].noc # last.title
    /\ last.result = <<Result(entries[2], Scale)>>

\* C3: two title lookups with identical title and top_k, with no change of the
\* taxonomy or the index between them, return identical result lists whatever
\* the embedding service does on each call: the list a call returned is the list
\* the same call returns with the service up and with the service failing
\* (stated for a non-empty title and top_k >= 1).
C3_SameResultWhateverTheService ==
    (IsTitleCall /\ last.title # <<>> /\ last.top_k >= 1) =>
        \A up \in BOOLEAN :
            match_by_title(entries, last.title, last.top_k, up, title_index).result
                = last.result

\* C4: for every query and every top_k <= 0, match_by_title and match_query
\* return an empty list.
C4_NonPositiveTopKIsEmpty ==
    (last.op \in {"match_by_title", "match_query"} /\ last.top_k <= 0) =>
        ~last.failed /\ last.result = <<>>

\* C5: on an empty taxonomy match_by_title and match_query return an empty list,
\* raise no error and make no call to the embedding service.
C5_EmptyTaxonomy ==
    (last.op \in {"match_by_title", "match_query"} /\ entries = <<>>) =>
        ~last.failed /\ last.result = <<>> /\ last.embed_calls = 0

\* Both functions were called on an empty taxonomy while a title index, built
\* from earlier data, was loaded.
C5_Witness ==
    /\ entries = <<>> /\ title_index # None
    /\ last.op \in {"match_by_title", "match_query"}
    /\ last.result = <<>>

\* C6: whenever the code shortcut or the exact/alias strategy yields an entry,
\* match_by_title returns without calling the embedding service, and returns
\* the same list whether the service is up or failing.
C6_ExactPathsSkipEmbedding ==
    (IsTitleCall /\ (CodeHit \/ ExactHits # {})) =>
        /\ ~last.failed
        /\ last.embed_calls = 0
        /\ ~last.embed_failed
        /\ \A up \in BOOLEAN :
              match_by_title(entries, last.title, last.top_k, up, title_index)
                  = [f \in {"failed", "result", "embed_calls", "embed_failed", "path"} |-> last[f]]

\* An exact or code match was returned while the title index was loaded and the
\* embedding service was failing.
C6_Witness ==
    /\ IsTitleCall /\ (CodeHit \/ ExactHits # {})
    /\ title_index # None /\ ~last.up
    /\ last.result # <<>> /\ last.result[1].score = Scale

\* C7: on the fuzzy path with the title index loaded, a failure of the embedding
\* call is surfaced to the caller as a failure of the lookup, never as a ranked
\* list (stated for a non-empty title and top_k >= 1).
C7_EmbeddingFailureSurfaces ==
    (IsTitleCall /\ entries # <<>> /\ ~CodeHit /\ ExactHits = {}
        /\ last.title # <<>> /\ last.top_k >= 1
        /\ title_index # None /\ ~last.up) =>
        last.failed

\* C8 (as stated): when the embedding call fails during match_query(q, k) on a
\* non-empty taxonomy, the call fails and afterwards the lookup cache holds no
\* entry for q.
C8_NoEntryForQuery ==
    (last.op = "match_query" /\ entries # <<>> /\ ~last.up) =>
        /\ last.failed
        /\ \A i \in 1..Len(cache) : cache[i].key[1] # last.title

\* C8 (amended): when the embedding call fails during match_query(q, k) on a
\* non-empty taxonomy, the call fails, no result list is returned, and the call
\* leaves the lookup cache as it was.
C8_FailsAndLeavesCache ==
    [][(Idle /\ last'.op = "match_query" /\ entries # <<>> /\ ~last'.up) =>
          (last'.failed /\ last'.result = <<>> /\ cache' = cache)]_vars

\* match_query failed on the embedding call while the cache held an entry.
C8_Witness ==
    /\ last.op = "match_query" /\ entries # <<>> /\ ~last.up
    /\ last.failed /\ last.embed_failed
    /\ cache # <<>>

\* C9: the lookup cache holds an entry only if the computation that produced it
\* did not hit an embedding-service failure.
C9_NoFailedLookupCached ==
    \A i \in 1..Len(cache) : ~cache[i].embed_failed

\* C10: after every prepare_and_build_index that returns, the lookup cache is
\* empty.
C10_CacheEmptyAfterRebuild ==
    (last.op = "prepare" /\ ~last.failed) => cache = <<>>

\* C11: two title inputs with the same normalized text, looked up through
\* match_by_title_cached with the same top_k (positional, keyword or default),
\* resolve to one cache entry: when the cache holds an entry for a title that
\* normalizes like the title of the call and for the same top_k, the call is a hit
\* and returns the stored result.
C11_SameNormalizedTitleHits ==
    [][\A i \in 1..Len(cache) :
          (/\ Idle
           /\ last'.op = "match_by_title_cached"
           /\ normalize_text(cache[i].key[1]) = normalize_text(last'.title)
           /\ cache[i].key[2] = last'.top_k)
          => (last'.hit /\ last'.result = cache[i].value)]_vars

\* The order of Python's str comparison on codes made of digits.
RECURSIVE CodeLeq(_, _)
CodeLeq(a, b) ==
    IF a = <<>> THEN TRUE
    ELSE IF b = <<>> THEN FALSE
    ELSE IF Head(a) = Head(b) THEN CodeLeq(Tail(a), Tail(b))
    ELSE CharCode(Head(a)) < CharCode(Head(b))

\* C12: every result list returned by match_by_title and match_query is ordered
\* by non-increasing score, and two adjacent results with equal score appear in
\* ascending order of code (stated for a non-empty title).
C12_OrderedByScoreThenCode ==
    (last.op \in {"match_by_title", "match_query"} /\ last.title # <<>>) =>
        \A x \in 1..(Len(last.result) - 1) :
            /\ last.result[x].score >= last.result[x + 1].score
            /\ (last.result[x].score = last.result[x + 1].score) =>
                  CodeLeq(last.result[x].noc, last.result[x + 1].noc)

\* The title lookup of the last call went past the code shortcut and the exact
\* strategy.
IsFuzzyCall == IsTitleCall /\ entries # <<>> /\ ~CodeHit /\ ExactHits = {}

\* The positions the title index search returned for the title of the last call:
\* none when no title index is loaded or the embedding call failed.
SemanticCandidates ==
    IF title_index = None \/ ~last.up THEN {}
    ELSE LET found == IndexSearch(last.title, title_index,
                                  Min({TitleCandidates, Len(title_index)}))
         IN {found[x] : x \in 1..Len(found)}

SemanticScore(i) ==
    IF i \in SemanticCandidates
    THEN Cosine(Embed(last.title), Embed(title_index[i]))
    ELSE 0

\* The greater of the title similarity and the best related-title similarity.
LexicalScore(i) ==
    LET q == normalize_text(last.title)
    IN Max({string_similarity(q, normalize_text(entries[i].title))}
           \cup {string_similarity(q, normalize_text(entries[i].related_titles[j])) :
                    j \in 1..Len(entries[i].related_titles)})

\* The number of non-empty keywords of the entry whose normalized text is in the
\* normalized title.
KeywordCount(i) ==
    Cardinality({j \in 1..Len(entries[i].keywords) :
        /\ normalize_text(entries[i].keywords[j]) # <<>>
        /\ IsSubstring(normalize_text(entries[i].keywords[j]), normalize_text(last.title))})

\* 0.05 * min(m, 3)
KeywordBoost(i) == (Scale \div 20) * Min({KeywordCount(i), 3})

\* C13 (as stated): on the fuzzy path each entry's score is
\* min(1.0, 0.7 * lexicalScore + 0.3 * semanticScore + 0.05 * min(m, 3)), where
\* lexicalScore is the greater of the title and the best alias similarity and
\* itself carries the keyword boost (clamped to 1.0), so that the boost is
\* applied twice.
C13_FusedScoreBoostedTwice ==
    (IsFuzzyCall /\ last.top_k >= 0) =>
        \A x \in 1..Len(last.result) :
            \E i \in 1..Len(entries) :
                /\ IsEntry(last.result[x], i)
                /\ last.result[x].score =
                      Min({Scale,
                           (7 * Min({Scale, LexicalScore(i) + KeywordBoost(i)})
                              + 3 * SemanticScore(i)) \div 10
                           + KeywordBoost(i)})

\* C13 (amended): on the fuzzy path the call returns min(top_k, number of
\* entries) results and each one is an entry with the score
\* min(1.0, 0.7 * lexicalScore + 0.3 * semanticScore + 0.05 * min(m, 3)), where
\* lexicalScore is the greater of the title similarity and the best alias
\* similarity, without any boost, semanticScore is the title index score at the
\* entry's position, or 0.0 when the position is not among the candidates the
\* index search returned, when no title index is loaded and when the embedding
\* call failed, and m counts the entry's non-empty keywords found in the
\* normalized title.
C13_FusedScore ==
    (IsFuzzyCall /\ last.top_k >= 0) =>
        /\ ~last.failed
        /\ Len(last.result) = Min({last.top_k, Len(entries)})
        /\ \A x \in 1..Len(last.result) :
              \E i \in 1..Len(entries) :
                  /\ IsEntry(last.result[x], i)
                  /\ last.result[x].score =
                        Min({Scale,
                             (7 * LexicalScore(i) + 3 * SemanticScore(i)) \div 10
                             + KeywordBoost(i)})

\* A fuzzy lookup with the title index answering returned every entry of a
\* taxonomy longer than the candidate width: one entry is outside the candidates,
\* one has more than three keywords in the title, one has a negative semantic
\* score, one has a sum above 1.0 and one has a boosted score below 1.0.
C13_Witness ==
    /\ IsFuzzyCall /\ title_index # None /\ last.up
    /\ Len(last.result) = Len(entries)
    /\ \E i \in 1..Len(entries) : i \notin SemanticCandidates
    /\ \E i \in 1..Len(entries) : KeywordCount(i) > 3
    /\ \E i \in 1..Len(entries) : SemanticScore(i) < 0
    /\ \E i \in 1..Len(entries) :
          (7 * LexicalScore(i) + 3 * SemanticScore(i)) \div 10 + KeywordBoost(i) > Scale
    /\ \E x \in 1..Len(last.result), i \in 1..Len(entries) :
          /\ IsEntry(last.result[x], i)
          /\ KeywordCount(i) > 0
          /\ last.result[x].score < Scale

\* C14: every score in every result returned by match_by_title and match_query
\* lies in [0, 1], also when the semantic score of an entry against the query is
\* negative.
C14_ScoresInUnitInterval ==
    (last.op \in {"match_by_title", "match_query"}) =>
        \A x \in 1..Len(last.result) :
            0 <= last.result[x].score /\ last.result[x].score <= Scale

\* C15: no result list returned by match_by_title or match_query contains two
\* results with the same code, also when the taxonomy data contains two records
\* with the same code (stated for a non-empty title).
C15_NoDuplicateCodes ==
    (last.op \in {"match_by_title", "match_query"} /\ last.title # <<>>) =>
        \A x, y \in 1..Len(last.result) :
            x # y => last.result[x].noc # last.result[y].noc

\* C16: whenever load_faiss yields no index, match_query on a non-empty taxonomy
\* with a working embedding service returns a ranked list computed by the
\* brute-force branch, in every state of the stored-embeddings file (present,
\* absent, shorter than the taxonomy).
C16_NoIndexDegradesToBruteForce ==
    (/\ last.op = "match_query" /\ entries # <<>> /\ last.up
     /\ load_faiss(faiss_available, faiss_file) = None) =>
        ~last.failed /\ last.path = "brute"

\* C17: for a fixed query, a fixed taxonomy and any top_k (also one larger than
\* the number of entries), the brute-force branch and the indexed branch of
\* match_query return the same sequence of codes with the same scores: when
\* the embeddings file and the index were both built from the entries, what the
\* one branch returns for the query of the last call is what the other returns.
C17_BackendsAgree ==
    (/\ last.op = "match_query" /\ entries # <<>> /\ last.up
     /\ emb_file = DutiesOf(entries) /\ faiss_file = DutiesOf(entries)) =>
        LET k == IF last.top_k = 0 THEN TOP_K ELSE last.top_k
            brute == brute_force(entries, last.title, k, emb_file)
            indexed == faiss_search(entries, last.title, k, faiss_file)
        IN brute.failed = indexed.failed /\ brute.result = indexed.result

\* C18 (for the duty vectors): after any sequence of taxonomy data changes and
\* prepare_and_build_index calls, once prepare_and_build_index has returned the
\* stored duty vectors (the embeddings file and, where FAISS is available, the
\* index) have the length of the taxonomy and vector i was computed from the
\* duties text of entry i.
C18_VectorsAlignedWithEntries ==
    (last.op = "prepare" /\ ~last.failed) =>
        /\ emb_file = DutiesOf(entries)
        /\ faiss_available => faiss_file = DutiesOf(entries)

C20_QuerySeesOneSnapshot ==
    (querying.pc = "done" /\ querying.aligned /\ querying.vectors # None) =>
        querying.vectors = DutiesOf(querying.entries)
\* C21: for every input text, normalize_text returns a text made of characters of
\* [a-z0-9 ] only, with no two consecutive spaces and no leading or trailing
\* space; an input without any letter or digit yields the empty text.
C21_NormalForm ==
    (last.op = "normalize_text") =>
        LET s == last.title
            r == last.result
        IN /\ \A i \in 1..Len(r) : r[i] \in LowerChars \cup DigitChars \cup {" "}
           /\ \A i \in 1..(Len(r) - 1) : ~(r[i] = " " /\ r[i + 1] = " ")
           /\ r # <<>> => (r[1] # " " /\ r[Len(r)] # " ")
           /\ (\A i \in 1..Len(s) : s[i] \in {" ", "!"}) => r = <<>>
\* The entries whose normalized title or a normalized alias is the normalized
\* title of the last call, an entry with an empty title included.
AliasOrTitleHits ==
    {j \in 1..Len(entries) :
        \/ normalize_text(entries[j].title) = normalize_text(last.title)
        \/ \E x \in 1..Len(entries[j].related_titles) :
              normalize_text(entries[j].related_titles[x]) = normalize_text(last.title)}

\* The positions of S that are the first of S with their code.
FirstOfCode(S) ==
    {j \in S : \A i \in S : i < j => entries[i].noc # entries[j].noc}

\* The result list is the entries at the positions S, in taxonomy order, at score
\* 1.0, cut like a Python slice [:top_k].
IsExactList(S) ==
    /\ Len(last.result) =
          IF last.top_k >= 0 THEN Min({last.top_k, Cardinality(S)})
          ELSE Max({Cardinality(S) + last.top_k, 0})
    /\ \A x \in 1..Len(last.result) :
          \E j \in S :
              /\ Cardinality({i \in S : i <= j}) = x
              /\ last.result[x] = Result(entries[j], Scale)

C23_EvictedOnlyByRebuild ==
    [][\A i \in 1..Len(cache) :
          cache[i].key \in CacheKeys(cache') \/ last'.op = "prepare"]_vars

\* C23 (amended): a cache entry stays in the lookup cache, with its value, until
\* it is the least recently used entry of a full cache and a cached lookup of a
\* key that is not in the cache stores its result; no other step, an index
\* rebuild included, removes an entry.  A lookup whose key is in the cache is a
\* hit: it returns the stored value, makes no embedding call and makes the entry
\* the most recently used one, the other entries keeping their order.
C23_EvictedWhenLeastRecentlyUsed ==
    [][/\ \A i \in 1..Len(cache) :
             \/ \E j \in 1..Len(cache') : cache'[j] = cache[i]
             \/ /\ i = 1 /\ Len(cache) = LruMaxSize
                /\ last'.op = "match_by_title_cached" /\ ~last'.hit
                /\ \A j \in 1..Len(cache) : cache'[Len(cache')].key # cache[j].key
       /\ (Idle /\ last'.op = "match_by_title_cached" /\ last'.hit) =>
             /\ last'.embed_calls = 0 /\ ~last'.failed
             /\ \E i \in 1..Len(cache) :
                   /\ cache[i].key[1] = last'.title /\ cache[i].key[2] = last'.top_k
                   /\ cache[i].value = last'.result
                   /\ cache' = Without(cache, i) \o <<cache[i]>>]_vars

\* A repeated lookup was a hit on a full cache while the embedding service was
\* down and the title index loaded, and its entry is now the most recently used.
C23_Witness ==
    /\ last.op = "match_by_title_cached" /\ last.hit
    /\ ~last.up /\ title_index # None /\ entries # <<>>
    /\ Len(cache) = LruMaxSize
    /\ cache[Len(cache)].key[1] = last.title
    /\ cache[Len(cache)].value = last.result
    /\ last.embed_calls = 0
\* C24: one call of match_by_title or match_query makes at most one call to the
\* embedding service, whatever the number of taxonomy entries, and none when the
\* taxonomy is empty or when match_by_title answers through the code shortcut or
\* the exact/alias match.
C24_AtMostOneEmbeddingCall ==
    (last.op \in {"match_by_title", "match_query"}) =>
        /\ last.embed_calls <= 1
        /\ entries = <<>> => last.embed_calls = 0
        /\ (IsTitleCall /\ (CodeHit \/ ExactHits # {})) => last.embed_calls = 0

\* A fuzzy title lookup over two entries with a loaded title index made its
\* single embedding call.
C24_Witness ==
    /\ Len(entries) = 2 /\ last.embed_calls = 1
    /\ IsFuzzyCall /\ title_index # None
\* C25 (as stated): match_by_title_cached(normalize_text(t), topK), computed on a
\* key that is not cached yet, returns the same result list as
\* match_by_title(t, topK) for every raw title t, and the key it is given is a
\* fixed point of normalize_text.
C25_WrapperPreservesBehaviour ==
    (last.op = "match_by_title_cached" /\ ~last.hit) =>
        /\ normalize_text(last.title) = last.title
        /\ \A t \in WrapperTitles :
              normalize_text(t) = last.title =>
                  last.result =
                      match_by_title(entries, t, last.top_k, last.up, title_index).result
\* C26 (as stated): match_query returns at most min(top_k, number of entries)
\* results, top_k being config.TOP_K when none is given, and no result is made
\* of a padding position of the index.
C26_NoPaddingResults ==
    (last.op = "match_query" /\ ~last.failed) =>
        LET k == IF last.top_k = 0 THEN TOP_K ELSE last.top_k
        IN /\ Len(last.result) <= Min({k, Len(entries)})
           /\ \A x \in 1..Len(last.result) : last.result[x].score # PadScore
\* The stored embeddings, and the index where the FAISS library is available, are
\* the ones a successful prepare_and_build_index wrote for the current data.
BuiltForCurrentData ==
    /\ entries # <<>>
    /\ emb_file = DutiesOf(entries)
    /\ faiss_available => faiss_file = DutiesOf(entries)

\* C27 (as stated): once prepare_and_build_index has returned successfully, a
\* call with force_rebuild=False on unchanged data makes no embedding-service
\* call and leaves the stored embeddings and the index unchanged, whether the
\* FAISS library is available or not; a call with force_rebuild=True on a
\* non-empty taxonomy calls the embedding service and, when it returns, has
\* rewritten the stored embeddings and (where FAISS is available) the index.
C27_RebuildOnlyWhenForced ==
    [][\A up \in BOOLEAN :
          /\ (PrepareAndBuildIndex(FALSE, up) /\ BuiltForCurrentData) =>
                /\ last'.embed_calls = 0
                /\ ~last'.failed
                /\ UNCHANGED <<emb_file, faiss_file>>
          /\ (PrepareAndBuildIndex(TRUE, up) /\ entries # <<>>) =>
                /\ last'.embed_calls >= 1
                /\ ~last'.failed =>
                      /\ emb_file' = DutiesOf(entries)
                      /\ faiss_available => faiss_file' = DutiesOf(entries)]_vars
\* C28 (as stated): an order that is marked paid is never marked unpaid again,
\* and an order becomes paid only in a download whose Stripe session has
\* payment_status "paid" or in a webhook request whose event passed signature
\* verification whenever a webhook secret is configured.
C28_PaidOnlyOnEvidence ==
    [][\A o \in OrderIds :
          LET paid == o \in DOMAIN orders /\ orders[o].paid
              paid_after == o \in DOMAIN orders' /\ orders'[o].paid
          IN /\ paid => paid_after
             /\ (~paid /\ paid_after) =>
                   \/ request'.route = "download" /\ request'.payment_status = "paid"
                   \/ /\ request'.route = "webhook"
                      /\ STRIPE_WEBHOOK_SECRET => request'.verified]_vars
====
